---------------------------- MODULE Spec2Model ----------------------------
(***************************************************************************)
(* The kitchen of src/src/kitchen.rs as a state machine: three bounded     *)
(* storages (cooler, heater, shelf), the shelf's eviction heap, the action *)
(* log and the last issued timestamp, driven by place_order callers and    *)
(* by one pickup_order caller per order (src/src/main.rs).                 *)
(*                                                                         *)
(* Granularity.  A step is what a thread does under a storage's mutex up to *)
(* the next point where another thread can see or change what it works on. *)
(* Every record_action call is three steps: the successful compare-and-    *)
(* swap on last_timestamp, the push onto the log under the log's mutex (so *)
(* that the log's push order can differ from its timestamp order), and the *)
(* println!, after which the function that recorded returns.  Where        *)
(* record_action is called with a storage's mutex held (try_place_in_      *)
(* storage, force_place_in_storage, discard_from_shelf, pickup_order), the *)
(* exchange ends the step that changed the storage and the mutex stays     *)
(* held through the push and the println! that follows it, until the       *)
(* function that recorded returns: threads that need it wait, all others   *)
(* run.  Where it is called after the mutex was dropped (try_place_on_     *)
(* shelf, force_place_on_shelf, try_move_to_shelf_from_storage), the       *)
(* exchange is a step of its own.  A failed exchange changes nothing and   *)
(* is no step.  The println! waits for stdout's lock, which no thread holds *)
(* while it waits for anything else, and it panics when the write to       *)
(* stdout fails.                                                           *)
(* The runs the properties are checked in have a stdout that works;        *)
(* SpecStdout is the run whose stdout may fail at any moment.              *)
(*                                                                         *)
(* Times are microseconds since the epoch.  An Order keeps the fields the  *)
(* kitchen reads (id, temp, freshness); name and price are never read.     *)
(***************************************************************************)
EXTENDS Integers, Sequences, FiniteSets, TLC

VARIABLES
  cooler,          \* VecDeque<StoredOrder>
  heater,          \* VecDeque<StoredOrder>
  shelf,           \* HashMap<String, StoredOrder>: a function on the ids held
  shelf_queue,     \* BinaryHeap<Reverse<OrderEntry>>: the entries, in push order
  actions,         \* Vec<Action>, in push order
  last_timestamp,  \* AtomicU64
  poisoned,        \* the mutexes a panicking holder left poisoned
  holder,          \* per storage mutex: the thread that holds it between steps
  pc,              \* per place_order caller: where it is in place_order
  todo,            \* per place_order caller: the (order, time) calls still to make
  stored,          \* per place_order caller: the StoredOrder built at line 146
  timestamp,       \* per place_order caller: the timestamp argument
  moved,           \* per place_order caller: the order popped at line 305
  entry,           \* per place_order caller: sizes seen when the call began (history)
  ppc,             \* per pickup_order caller: where it is in pickup_order
  ptime,           \* per pickup_order caller: the timestamp argument it passes
  pending,         \* per thread: the Action built at line 135, not yet pushed
  stdout_ok,       \* whether a write to the process's stdout succeeds
  snapshots        \* what get_actions returned, call by call, since the last kitchen step

vars == <<cooler, heater, shelf, shelf_queue, actions, last_timestamp, poisoned,
          holder, pc, todo, stored, timestamp, moved, entry, ppc, ptime, pending,
          stdout_ok, snapshots>>

kitchenVars == <<cooler, heater, shelf, shelf_queue, actions, last_timestamp, poisoned,
                 holder>>

callerVars == <<pc, todo, stored, timestamp, moved, entry, ppc, ptime, pending>>

-----------------------------------------------------------------------------
(* Program constants. *)

COOLER_CAPACITY == 6
HEATER_CAPACITY == 6
SHELF_CAPACITY == 12
DEGRADATION_RATE_IDEAL == 1
DEGRADATION_RATE_NON_IDEAL == 2
MICROS_PER_SEC == 1000000

PLACE == "place"
MOVE == "move"
PICKUP == "pickup"
DISCARD == "discard"
HOT == "hot"
COLD == "cold"
ROOM == "room"
HEATER == "heater"
COOLER == "cooler"
SHELF == "shelf"

-----------------------------------------------------------------------------
(* Bounds of the model. *)

\* How many pickup_order callers run in one behaviour of Spec.
MaxPickups == 2

\* The pickup_order callers sleep first (main.rs, lines 95-99): they begin once
\* every place_order caller has at most this many calls left to make.
PickupWindow == 3

\* How many get_actions calls are made in a row, with no kitchen step between.
MaxCalls == 2

\* The times a pickup_order caller may pass.
PickupTimes == {1500000, 3000000}

-----------------------------------------------------------------------------
(* Pure helpers. *)

Max(a, b) == IF a >= b THEN a ELSE b

Range(s) == {s[k] : k \in 1..Len(s)}

RemoveAt(s, i) == SubSeq(s, 1, i - 1) \o SubSeq(s, i + 1, Len(s))

\* StoredOrder { order, placed_at, current_temp }, the order's fields inlined.
StoredOrder(order, placed_at, current_temp) ==
  [id |-> order.id, temp |-> order.temp, freshness |-> order.freshness,
   placed_at |-> placed_at, current_temp |-> current_temp]

NoOrder == StoredOrder([id |-> "", temp |-> "", freshness |-> 0], 0, "")

get_storage_temp(storage_location) ==
  CASE storage_location = HEATER -> HOT
    [] storage_location = COOLER -> COLD
    [] storage_location = SHELF -> ROOM
    [] OTHER -> ROOM

\* now.duration_since(placed_at).unwrap_or_default().as_secs()
ElapsedSecs(placed_at, now) ==
  IF now >= placed_at THEN (now - placed_at) \div MICROS_PER_SEC ELSE 0

degradation_rate(s) ==
  IF s.temp = get_storage_temp(s.current_temp)
    THEN DEGRADATION_RATE_IDEAL
    ELSE DEGRADATION_RATE_NON_IDEAL

remaining_freshness(s, now) ==
  s.freshness - ElapsedSecs(s.placed_at, now) * degradation_rate(s)

\* A slip: an order with nothing left still counts as fresh.
is_expired_strict(s, now) == remaining_freshness(s, now) < 0

is_expired(s, now) == remaining_freshness(s, now) <= 0

\* A slip: the rate is always the ideal one.
calculate_expiration_ideal(s) == s.placed_at + s.freshness * MICROS_PER_SEC

\* (freshness as f64 / rate as f64 * 1_000_000.0) as u64, added to placed_at.
calculate_expiration(s) ==
  s.placed_at + (s.freshness * MICROS_PER_SEC) \div degradation_rate(s)

OrderEntry(order_id, expires_at) == [order_id |-> order_id, expires_at |-> expires_at]

\* A slip: every action names the shelf as its target.
ActionTargetsShelf(id, action_type, target, micros) ==
  [timestamp |-> micros, id |-> id, action |-> action_type, target |-> SHELF]

Action(id, action_type, target, micros) ==
  [timestamp |-> micros, id |-> id, action |-> action_type, target |-> target]

\* A slip: the candidate does not step past the last issued timestamp.
MonotonicTimestampNoStep(provided, last) == Max(provided, last)

\* A slip: the caller's time is ignored.
MonotonicTimestampIgnoresProvided(provided, last) == last + 1

\* The candidate of the compare-and-swap loop.
MonotonicTimestamp(provided, last) == Max(provided, last + 1)

NoAction == Action("", "", "", 0)

\* record_action called by thread th, lines 103-135: the successful exchange on
\* last_timestamp and the Action built from it.  The Action then waits for the
\* log's mutex; whatever storage lock the caller holds stays held meanwhile.
record_action(th, order_id, action_type, target, provided) ==
  LET ts == MonotonicTimestamp(provided, last_timestamp)
  IN  /\ last_timestamp' = ts
      /\ pending' = [pending EXCEPT ![th] = Action(order_id, action_type, target, ts)]

\* Lines 136-138: under the log's mutex, push the Action th built.
push_action(th) ==
  /\ actions' = Append(actions, pending[th])
  /\ pending' = [pending EXCEPT ![th] = NoAction]

-----------------------------------------------------------------------------
(* The mutexes of the storages. *)

QUEUE == "shelf_queue"

Mutexes == {COOLER, HEATER, SHELF, QUEUE}

NoThread == ""

\* lock() returns only when no other thread holds the mutex.
Free(m) == holder[m] = NoThread

\* The step ends with thread th still holding the mutexes of S.
Hold(th, S) == holder' = [m \in Mutexes |-> IF m \in S THEN th ELSE holder[m]]

\* The guards th holds go out of scope.
Release(th) == holder' = [m \in Mutexes |-> IF holder[m] = th THEN NoThread ELSE holder[m]]

-----------------------------------------------------------------------------
(* The storages. *)

Storage(target) == IF target = COOLER THEN cooler ELSE heater

Capacity(target) == IF target = COOLER THEN COOLER_CAPACITY ELSE HEATER_CAPACITY

\* A slip: the size test is off by one.
IsFullOffByOne(len, capacity) == len > capacity

\* storage.len() >= capacity, shelf.len() >= SHELF_CAPACITY
IsFull(len, capacity) == len >= capacity

SetStorage(target, v) ==
  IF target = COOLER
    THEN cooler' = v /\ UNCHANGED heater
    ELSE heater' = v /\ UNCHANGED cooler

\* A slip: the back is taken instead of the front.
pop_back(storage) ==
  [item |-> storage[Len(storage)], rest |-> SubSeq(storage, 1, Len(storage) - 1)]

\* A slip: the front is read and never taken out.
pop_front_peek(storage) == [item |-> Head(storage), rest |-> storage]

\* VecDeque::pop_front on a deque that is not empty: the item and what is left.
pop_front(storage) == [item |-> Head(storage), rest |-> Tail(storage)]

\* HashMap::insert: the entry for the key is added or replaced.
MapInsert(m, k, v) == [x \in DOMAIN m \cup {k} |-> IF x = k THEN v ELSE m[x]]

\* A slip: the key is looked up and never taken out.
MapRemoveKeeps(m, k) == m

\* HashMap::remove of a key that is present.
MapRemove(m, k) == [x \in DOMAIN m \ {k} |-> m[x]]

\* iter().position(|o| o.order.id == order_id): the first index, or 0 for None.
Position(storage, order_id) ==
  LET hits == {i \in 1..Len(storage) : storage[i].id = order_id}
  IN  IF hits = {} THEN 0 ELSE CHOOSE i \in hits : \A j \in hits : i <= j

\* A slip: the heap is left as it is.
RetainAll(queue, order_id) == queue

\* retain(|Reverse(entry)| entry.order_id != order_id)
Retain(queue, order_id) == SelectSeq(queue, LAMBDA e : e.order_id # order_id)

\* A slip: the heap is not reversed and yields the latest expiry.
PopCandidatesLatest(queue) ==
  {i \in 1..Len(queue) : \A j \in 1..Len(queue) :
     queue[i].expires_at >= queue[j].expires_at}

\* The entries BinaryHeap::pop may return: those of least expires_at (which
\* of several equal ones the heap yields is left open).
PopCandidates(queue) ==
  {i \in 1..Len(queue) : \A j \in 1..Len(queue) :
     queue[i].expires_at <= queue[j].expires_at}

\* The loop of discard_from_shelf: pop until an entry names an order that
\* shelf.remove finds.  Each outcome is the victim (or none) and the heap left.
RECURSIVE DiscardOutcomes(_, _)
DiscardOutcomes(queue, sh) ==
  IF queue = <<>>
    THEN {[found |-> FALSE, order_id |-> "", queue |-> <<>>]}
    ELSE UNION {
           IF queue[i].order_id \in DOMAIN sh
             THEN {[found |-> TRUE, order_id |-> queue[i].order_id,
                    queue |-> RemoveAt(queue, i)]}
             ELSE DiscardOutcomes(RemoveAt(queue, i), sh)
           : i \in PopCandidates(queue)}

-----------------------------------------------------------------------------
(* place_order, one caller p. *)

Placers == {"p1", "p2"}

NoEntry == [cooler |-> 0, heater |-> 0, shelf |-> 0, actions |-> 0]

\* A slip: the two match arms are swapped.
ideal_target_swapped(temp) ==
  CASE temp = HOT -> COOLER
    [] temp = COLD -> HEATER
    [] OTHER -> SHELF

ideal_target(temp) ==
  CASE temp = HOT -> HEATER
    [] temp = COLD -> COOLER
    [] OTHER -> SHELF

Goto(p, label) == pc' = [pc EXCEPT ![p] = label]

\* place_order returns: its locals go away.
Return(p) ==
  /\ pc' = [pc EXCEPT ![p] = "idle"]
  /\ stored' = [stored EXCEPT ![p] = NoOrder]
  /\ moved' = [moved EXCEPT ![p] = NoOrder]
  /\ timestamp' = [timestamp EXCEPT ![p] = 0]
  /\ entry' = [entry EXCEPT ![p] = NoEntry]

\* lock().unwrap() on a poisoned mutex, or a panic! while holding `held`.
Panic(p, held) ==
  /\ pc' = [pc EXCEPT ![p] = "panic"]
  /\ poisoned' = poisoned \cup held
  /\ UNCHANGED <<stored, moved, timestamp, entry>>

\* Lines 145-166: build the StoredOrder, choose the first attempt.
PlaceOrder(p) ==
  /\ pc[p] = "idle"
  /\ todo[p] # <<>>
  /\ LET call == Head(todo[p])
     IN  /\ stored' = [stored EXCEPT ![p] = StoredOrder(call.order, call.t, "")]
         /\ timestamp' = [timestamp EXCEPT ![p] = call.t]
         /\ pc' = [pc EXCEPT ![p] =
                     IF call.order.temp = HOT \/ call.order.temp = COLD
                       THEN "tpis_159" ELSE "tpos_165"]
  /\ todo' = [todo EXCEPT ![p] = Tail(todo[p])]
  /\ entry' = [entry EXCEPT ![p] =
                 [cooler |-> Len(cooler), heater |-> Len(heater),
                  shelf |-> Cardinality(DOMAIN shelf), actions |-> Len(actions)]]
  /\ UNCHANGED <<kitchenVars, moved, ppc, ptime>>
  /\ UNCHANGED pending
  /\ snapshots' = <<>>
  /\ UNCHANGED stdout_ok

\* try_place_in_storage (line 159) under the storage's lock, up to the
\* exchange of its record_action (line 211); the lock is kept until its println! is done.
TryPlaceInStorage(p) ==
  /\ pc[p] = "tpis_159"
  /\ LET target == ideal_target(stored[p].temp)
     IN  /\ Free(target)
         /\ IF target \in poisoned
              THEN /\ Panic(p, {})
                   /\ UNCHANGED <<cooler, heater, last_timestamp, pending, holder>>
              ELSE IF IsFull(Len(Storage(target)), Capacity(target))
                THEN /\ Goto(p, "tpos_162")
                     /\ UNCHANGED <<cooler, heater, last_timestamp, pending, holder,
                                    poisoned, stored, moved, timestamp, entry>>
                ELSE /\ SetStorage(target,
                          Append(Storage(target), [stored[p] EXCEPT !.current_temp = target]))
                     /\ record_action(p, stored[p].id, PLACE, target, timestamp[p])
                     /\ Hold(p, {target})
                     /\ Goto(p, "tpis_push")
                     /\ UNCHANGED <<poisoned, stored, moved, timestamp, entry>>
  /\ UNCHANGED <<shelf, shelf_queue, actions, todo, ppc, ptime>>
  /\ snapshots' = <<>>
  /\ UNCHANGED stdout_ok

\* A slip: an order is stamped anew when it enters the shelf.
ShelfInsertRestamped(s) ==
  LET onShelf == [s EXCEPT !.current_temp = SHELF, !.placed_at = last_timestamp]
  IN  /\ shelf' = MapInsert(shelf, s.id, onShelf)
      /\ shelf_queue' = Append(shelf_queue,
                               OrderEntry(s.id, calculate_expiration(onShelf)))

\* What try_place_on_shelf, force_place_on_shelf and the move do to the shelf
\* and its heap under the shelf's lock: insert the order, push its entry.
ShelfInsert(s) ==
  LET onShelf == [s EXCEPT !.current_temp = SHELF]
  IN  /\ shelf' = MapInsert(shelf, s.id, onShelf)
      /\ shelf_queue' = Append(shelf_queue,
                               OrderEntry(s.id, calculate_expiration(onShelf)))

\* try_place_on_shelf (lines 162, 165, 173) up to drop(shelf).
TryPlaceOnShelf(p) ==
  /\ pc[p] \in {"tpos_162", "tpos_165", "tpos_173"}
  /\ Free(SHELF) /\ Free(QUEUE)
  /\ IF SHELF \in poisoned
       THEN /\ Panic(p, {})
            /\ UNCHANGED <<shelf, shelf_queue>>
       ELSE IF IsFull(Cardinality(DOMAIN shelf), SHELF_CAPACITY)
         THEN /\ Goto(p, CASE pc[p] = "tpos_162" -> "tmts_check"
                           [] pc[p] = "tpos_165" -> "dfs_180"
                           [] pc[p] = "tpos_173" -> "dfs_176")
              /\ UNCHANGED <<shelf, shelf_queue, poisoned, stored, moved, timestamp, entry>>
         ELSE /\ ShelfInsert(stored[p])
              /\ Goto(p, "tpos_record")
              /\ UNCHANGED <<poisoned, stored, moved, timestamp, entry>>
  /\ UNCHANGED <<cooler, heater, actions, last_timestamp, todo, ppc, ptime>>
  /\ UNCHANGED <<pending, holder>>
  /\ snapshots' = <<>>
  /\ UNCHANGED stdout_ok

\* Line 235, after the shelf's lock was dropped: the exchange of record_action.
TryPlaceOnShelfRecord(p) ==
  /\ pc[p] = "tpos_record"
  /\ record_action(p, stored[p].id, PLACE, SHELF, timestamp[p])
  /\ Goto(p, "tpos_push")
  /\ UNCHANGED <<cooler, heater, shelf, shelf_queue, actions, poisoned, todo,
                 stored, moved, timestamp, entry, ppc, ptime, holder>>
  /\ snapshots' = <<>>
  /\ UNCHANGED stdout_ok

\* try_move_to_shelf_from_storage, lines 286-292: look at the shelf's size.
TryMoveCheck(p) ==
  /\ pc[p] = "tmts_check"
  /\ Free(SHELF)
  /\ IF SHELF \in poisoned
       THEN Panic(p, {})
       ELSE /\ Goto(p, IF IsFull(Cardinality(DOMAIN shelf), SHELF_CAPACITY)
                         THEN "dfs_289" ELSE "tmts_pop")
            /\ UNCHANGED <<poisoned, stored, moved, timestamp, entry>>
  /\ UNCHANGED <<cooler, heater, shelf, shelf_queue, actions, last_timestamp,
                 todo, ppc, ptime>>
  /\ UNCHANGED <<pending, holder>>
  /\ snapshots' = <<>>
  /\ UNCHANGED stdout_ok

\* discard_from_shelf (lines 289, 176, 180) under the shelf's and the heap's
\* lock, up to the exchange of its record_action (line 332); both locks are
\* kept until its println! is done.
DiscardFromShelf(p) ==
  /\ pc[p] \in {"dfs_289", "dfs_176", "dfs_180"}
  /\ Free(SHELF) /\ Free(QUEUE)
  /\ IF SHELF \in poisoned
       THEN /\ Panic(p, {})
            /\ UNCHANGED <<shelf, shelf_queue, last_timestamp, pending, holder>>
       ELSE \E o \in DiscardOutcomes(shelf_queue, shelf) :
              /\ shelf_queue' = o.queue
              /\ IF o.found
                   THEN /\ shelf' = MapRemove(shelf, o.order_id)
                        /\ record_action(p, o.order_id, DISCARD, SHELF, timestamp[p])
                        /\ Hold(p, {SHELF, QUEUE})
                        /\ Goto(p, CASE pc[p] = "dfs_289" -> "dfs_289_push"
                                     [] pc[p] = "dfs_176" -> "dfs_176_push"
                                     [] pc[p] = "dfs_180" -> "dfs_180_push")
                        /\ UNCHANGED <<poisoned, stored, moved, timestamp, entry>>
                   ELSE /\ Panic(p, {SHELF, QUEUE})
                        /\ UNCHANGED <<shelf, last_timestamp, pending, holder>>
  /\ UNCHANGED <<cooler, heater, actions, todo, ppc, ptime>>
  /\ snapshots' = <<>>
  /\ UNCHANGED stdout_ok

\* try_move_to_shelf_from_storage, lines 294-307: pop the storage's front.
TryMovePop(p) ==
  /\ pc[p] = "tmts_pop"
  /\ LET source == ideal_target(stored[p].temp)
     IN  /\ Free(source)
         /\ IF source \in poisoned
              THEN /\ Panic(p, {})
                   /\ UNCHANGED <<cooler, heater>>
              ELSE IF Storage(source) = <<>>
                THEN /\ Goto(p, "tpos_173")
                     /\ UNCHANGED <<cooler, heater, poisoned, stored, moved, timestamp, entry>>
                ELSE /\ moved' = [moved EXCEPT ![p] = pop_front(Storage(source)).item]
                     /\ SetStorage(source, pop_front(Storage(source)).rest)
                     /\ Goto(p, "tmts_insert")
                     /\ UNCHANGED <<poisoned, stored, timestamp, entry>>
  /\ UNCHANGED <<shelf, shelf_queue, actions, last_timestamp, todo, ppc, ptime>>
  /\ UNCHANGED <<pending, holder>>
  /\ snapshots' = <<>>
  /\ UNCHANGED stdout_ok

\* Lines 312-321: put the popped order on the shelf (no size check here).
TryMoveInsert(p) ==
  /\ pc[p] = "tmts_insert"
  /\ Free(SHELF) /\ Free(QUEUE)
  /\ IF SHELF \in poisoned
       THEN /\ Panic(p, {})
            /\ UNCHANGED <<shelf, shelf_queue>>
       ELSE /\ ShelfInsert(moved[p])
            /\ Goto(p, "tmts_record")
            /\ UNCHANGED <<poisoned, stored, moved, timestamp, entry>>
  /\ UNCHANGED <<cooler, heater, actions, last_timestamp, todo, ppc, ptime>>
  /\ UNCHANGED <<pending, holder>>
  /\ snapshots' = <<>>
  /\ UNCHANGED stdout_ok

\* Line 322, after the shelf's lock was dropped: the exchange of record_action.
TryMoveRecord(p) ==
  /\ pc[p] = "tmts_record"
  /\ record_action(p, moved[p].id, MOVE, SHELF, timestamp[p])
  /\ Goto(p, "tmts_push")
  /\ UNCHANGED <<cooler, heater, shelf, shelf_queue, actions, poisoned, todo,
                 stored, moved, timestamp, entry, ppc, ptime, holder>>
  /\ snapshots' = <<>>
  /\ UNCHANGED stdout_ok

\* force_place_in_storage (line 171) under the storage's lock, up to the
\* exchange of its record_action (line 281); the lock is kept until its println! is done.
ForcePlaceInStorage(p) ==
  /\ pc[p] = "fpis_171"
  /\ LET target == ideal_target(stored[p].temp)
     IN  /\ Free(target)
         /\ IF target \in poisoned
              THEN /\ Panic(p, {})
                   /\ UNCHANGED <<cooler, heater, last_timestamp, pending, holder>>
              ELSE IF IsFull(Len(Storage(target)), Capacity(target))
                THEN /\ Panic(p, {target})
                     /\ UNCHANGED <<cooler, heater, last_timestamp, pending, holder>>
                ELSE /\ SetStorage(target,
                          Append(Storage(target), [stored[p] EXCEPT !.current_temp = target]))
                     /\ record_action(p, stored[p].id, PLACE, target, timestamp[p])
                     /\ Hold(p, {target})
                     /\ Goto(p, "fpis_push")
                     /\ UNCHANGED <<poisoned, stored, moved, timestamp, entry>>
  /\ UNCHANGED <<shelf, shelf_queue, actions, todo, ppc, ptime>>
  /\ snapshots' = <<>>
  /\ UNCHANGED stdout_ok

\* force_place_on_shelf (lines 177, 181) up to drop(shelf).
ForcePlaceOnShelf(p) ==
  /\ pc[p] \in {"fpos_177", "fpos_181"}
  /\ Free(SHELF) /\ Free(QUEUE)
  /\ IF SHELF \in poisoned
       THEN /\ Panic(p, {})
            /\ UNCHANGED <<shelf, shelf_queue>>
       ELSE IF IsFull(Cardinality(DOMAIN shelf), SHELF_CAPACITY)
         THEN /\ Panic(p, {SHELF})
              /\ UNCHANGED <<shelf, shelf_queue>>
         ELSE /\ ShelfInsert(stored[p])
              /\ Goto(p, "fpos_record")
              /\ UNCHANGED <<poisoned, stored, moved, timestamp, entry>>
  /\ UNCHANGED <<cooler, heater, actions, last_timestamp, todo, ppc, ptime>>
  /\ UNCHANGED <<pending, holder>>
  /\ snapshots' = <<>>
  /\ UNCHANGED stdout_ok

\* Line 259, after the shelf's lock was dropped: the exchange of record_action.
ForcePlaceOnShelfRecord(p) ==
  /\ pc[p] = "fpos_record"
  /\ record_action(p, stored[p].id, PLACE, SHELF, timestamp[p])
  /\ Goto(p, "fpos_push")
  /\ UNCHANGED <<cooler, heater, shelf, shelf_queue, actions, poisoned, todo,
                 stored, moved, timestamp, entry, ppc, ptime, holder>>
  /\ snapshots' = <<>>
  /\ UNCHANGED stdout_ok

\* From the push of a record_action call to its println!.
PrintLabel(label) ==
  CASE label = "tpis_push" -> "tpis_print"
    [] label = "tpos_push" -> "tpos_print"
    [] label = "tmts_push" -> "tmts_print"
    [] label = "fpis_push" -> "fpis_print"
    [] label = "fpos_push" -> "fpos_print"
    [] label = "dfs_289_push" -> "dfs_289_print"
    [] label = "dfs_176_push" -> "dfs_176_print"
    [] label = "dfs_180_push" -> "dfs_180_print"

\* Where place_order goes on once the record_action that prints at `label` is
\* done: after a placement it returns; after the move comes line 171, after an
\* eviction the step that follows it.
AfterRecord(label) ==
  CASE label = "tmts_print" -> "fpis_171"
    [] label = "dfs_289_print" -> "tmts_pop"
    [] label = "dfs_176_print" -> "fpos_177"
    [] label = "dfs_180_print" -> "fpos_181"
    [] OTHER -> "idle"

\* The guards thread th holds.
HeldBy(th) == {m \in Mutexes : holder[m] = th}

\* Lines 136-138 of a record_action call of place_order: the push under the
\* log's lock.  The storage locks the caller holds stay held.
PushAction(p) ==
  /\ pc[p] \in {"tpis_push", "tpos_push", "tmts_push", "fpis_push", "fpos_push",
                "dfs_289_push", "dfs_176_push", "dfs_180_push"}
  /\ push_action(p)
  /\ Goto(p, PrintLabel(pc[p]))
  /\ UNCHANGED <<cooler, heater, shelf, shelf_queue, last_timestamp, poisoned, holder,
                 todo, stored, moved, timestamp, entry, ppc, ptime>>
  /\ snapshots' = <<>>
  /\ UNCHANGED stdout_ok

\* Lines 139-143 of a record_action call of place_order, and the return of the
\* function that recorded: println! writes the line, then the storage guards
\* still held go out of scope.  When the write fails println! panics: the
\* guards are dropped by the unwinding and their mutexes are left poisoned.
PrintAction(p) ==
  /\ pc[p] \in {"tpis_print", "tpos_print", "tmts_print", "fpis_print", "fpos_print",
                "dfs_289_print", "dfs_176_print", "dfs_180_print"}
  /\ IF stdout_ok
       THEN /\ IF AfterRecord(pc[p]) = "idle"
                 THEN Return(p)
                 ELSE /\ Goto(p, AfterRecord(pc[p]))
                      /\ UNCHANGED <<stored, moved, timestamp, entry>>
            /\ UNCHANGED poisoned
       ELSE Panic(p, HeldBy(p))
  /\ Release(p)
  /\ UNCHANGED <<cooler, heater, shelf, shelf_queue, actions, last_timestamp, pending,
                 todo, ppc, ptime>>
  /\ snapshots' = <<>>
  /\ UNCHANGED stdout_ok

-----------------------------------------------------------------------------
(* pickup_order, one caller per order id. *)

\* A slip: an order that is not found is logged as discarded.
PickupInStorageLogsMiss(i, target, t, next) ==
  LET pos == Position(Storage(target), i)
  IN  IF pos # 0
        THEN /\ SetStorage(target, RemoveAt(Storage(target), pos))
             /\ record_action(i, i,
                  IF is_expired(Storage(target)[pos], t) THEN DISCARD ELSE PICKUP,
                  target, t)
             /\ Hold(i, {target})
             /\ ppc' = [ppc EXCEPT ![i] = IF target = COOLER THEN "cooler_push"
                                                            ELSE "heater_push"]
        ELSE /\ record_action(i, i, DISCARD, target, t)
             /\ ppc' = [ppc EXCEPT ![i] = next]
             /\ UNCHANGED <<cooler, heater, holder>>

\* Lines 364-375 and 377-388: one storage's block under that storage's lock,
\* up to the exchange of its record_action; the lock is kept until its println! is done.
PickupInStorage(i, target, t, next) ==
  IF target \in poisoned
    THEN /\ ppc' = [ppc EXCEPT ![i] = "panic"]
         /\ UNCHANGED <<cooler, heater, last_timestamp, pending, holder>>
    ELSE LET pos == Position(Storage(target), i)
         IN  IF pos # 0
               THEN /\ SetStorage(target, RemoveAt(Storage(target), pos))
                    /\ record_action(i, i,
                         IF is_expired(Storage(target)[pos], t) THEN DISCARD ELSE PICKUP,
                         target, t)
                    /\ Hold(i, {target})
                    /\ ppc' = [ppc EXCEPT ![i] = IF target = COOLER THEN "cooler_push"
                                                                   ELSE "heater_push"]
               ELSE /\ ppc' = [ppc EXCEPT ![i] = next]
                    /\ UNCHANGED <<cooler, heater, last_timestamp, pending, holder>>

\* pickup_order returns: its argument goes away.
PickupTime(i) ==
  ptime' = [ptime EXCEPT ![i] = IF ppc'[i] \in {"done", "panic"} THEN 0 ELSE ptime[i]]

\* The call pickup_order(i, ptime[i]) and its cooler block.
PickupCooler(i) ==
  /\ ppc[i] = "ready"
  /\ \A p \in DOMAIN todo : Len(todo[p]) <= PickupWindow
  /\ Free(COOLER)
  /\ PickupInStorage(i, COOLER, ptime[i], "heater")
  /\ PickupTime(i)
  /\ UNCHANGED <<shelf, shelf_queue, actions, poisoned, pc, todo, stored, timestamp,
                 moved, entry>>
  /\ snapshots' = <<>>
  /\ UNCHANGED stdout_ok

\* The heater block.
PickupHeater(i) ==
  /\ ppc[i] = "heater"
  /\ Free(HEATER)
  /\ PickupInStorage(i, HEATER, ptime[i], "shelf")
  /\ PickupTime(i)
  /\ UNCHANGED <<shelf, shelf_queue, actions, poisoned, pc, todo, stored, timestamp,
                 moved, entry>>
  /\ snapshots' = <<>>
  /\ UNCHANGED stdout_ok

\* Lines 391-404: the shelf block under the shelf's lock, the heap's lock taken
\* and dropped within it, up to the exchange of its record_action; the shelf's
\* lock is kept until its println! is done.  An order that is not there: the call returns.
PickupShelf(i) ==
  /\ ppc[i] = "shelf"
  /\ Free(SHELF) /\ Free(QUEUE)
  /\ IF SHELF \in poisoned
       THEN /\ ppc' = [ppc EXCEPT ![i] = "panic"]
            /\ UNCHANGED <<shelf, shelf_queue, last_timestamp, pending, holder>>
       ELSE IF i \in DOMAIN shelf
         THEN /\ shelf' = MapRemove(shelf, i)
              /\ shelf_queue' = Retain(shelf_queue, i)
              /\ record_action(i, i,
                   IF is_expired(shelf[i], ptime[i]) THEN DISCARD ELSE PICKUP,
                   SHELF, ptime[i])
              /\ Hold(i, {SHELF})
              /\ ppc' = [ppc EXCEPT ![i] = "shelf_push"]
         ELSE /\ ppc' = [ppc EXCEPT ![i] = "done"]
              /\ UNCHANGED <<shelf, shelf_queue, last_timestamp, pending, holder>>
  /\ PickupTime(i)
  /\ UNCHANGED <<cooler, heater, actions, poisoned, pc, todo, stored, timestamp,
                 moved, entry>>
  /\ snapshots' = <<>>
  /\ UNCHANGED stdout_ok

\* From the push of the record_action call of pickup_order to its println!.
PickupPrintLabel(label) ==
  CASE label = "cooler_push" -> "cooler_print"
    [] label = "heater_push" -> "heater_print"
    [] label = "shelf_push" -> "shelf_print"

\* Lines 136-138 of the record_action call of pickup_order: the push under the
\* log's lock.  The block's storage lock stays held.
PickupPush(i) ==
  /\ ppc[i] \in {"cooler_push", "heater_push", "shelf_push"}
  /\ push_action(i)
  /\ ppc' = [ppc EXCEPT ![i] = PickupPrintLabel(ppc[i])]
  /\ UNCHANGED <<cooler, heater, shelf, shelf_queue, last_timestamp, poisoned, holder,
                 pc, todo, stored, timestamp, moved, entry, ptime>>
  /\ snapshots' = <<>>
  /\ UNCHANGED stdout_ok

\* Lines 139-143 of the record_action call of pickup_order, and the end of the
\* block that recorded: println! writes the line, the block's guard goes out
\* of scope and the call returns.  When the write fails println! panics: the
\* guard is dropped by the unwinding and its mutex is left poisoned.
PickupPrint(i) ==
  /\ ppc[i] \in {"cooler_print", "heater_print", "shelf_print"}
  /\ IF stdout_ok
       THEN /\ ppc' = [ppc EXCEPT ![i] = "done"]
            /\ UNCHANGED poisoned
       ELSE /\ ppc' = [ppc EXCEPT ![i] = "panic"]
            /\ poisoned' = poisoned \cup HeldBy(i)
  /\ Release(i)
  /\ PickupTime(i)
  /\ UNCHANGED <<cooler, heater, shelf, shelf_queue, actions, last_timestamp, pending,
                 pc, todo, stored, timestamp, moved, entry>>
  /\ snapshots' = <<>>
  /\ UNCHANGED stdout_ok

\* The process's stdout stops taking writes (a closed pipe, a full device).
StdoutFails ==
  /\ stdout_ok
  /\ stdout_ok' = FALSE
  /\ UNCHANGED <<kitchenVars, callerVars, snapshots>>

\* A slip: the clone is returned as pushed, not sorted.
InsertAtEnd(log, a) == Append(log, a)

\* Where a stable sort puts `a` among the sorted `log`: after every entry whose
\* timestamp is not greater.
InsertByTimestamp(log, a) ==
  LET n == Cardinality({k \in 1..Len(log) : log[k].timestamp <= a.timestamp})
  IN  SubSeq(log, 1, n) \o <<a>> \o SubSeq(log, n + 1, Len(log))

\* get_actions: the log's clone, sorted by timestamp (a stable sort).
RECURSIVE SortByTimestamp(_)
SortByTimestamp(log) ==
  IF log = <<>>
    THEN <<>>
    ELSE InsertByTimestamp(SortByTimestamp(SubSeq(log, 1, Len(log) - 1)), log[Len(log)])

get_actions == SortByTimestamp(actions)

\* A call of get_actions by the thread that owns the kitchen: under the log's
\* lock it clones the log; the sorted clone is what it returns.
GetActions ==
  /\ Len(snapshots) < MaxCalls
  /\ snapshots' = Append(snapshots, get_actions)
  /\ UNCHANGED <<kitchenVars, callerVars, stdout_ok>>

-----------------------------------------------------------------------------
(* The callers: what main.rs feeds the kitchen. *)

Order(id, temp, freshness) == [id |-> id, temp |-> temp, freshness |-> freshness]

Call(order, t) == [order |-> order, t |-> t]

\* One run's place_order calls, in order: six cold orders fill the cooler, a
\* seventh falls back to the shelf, eleven room orders fill the shelf, then a
\* cold order (move-out cascade), a room order (eviction) and a hot order whose
\* time lies before the earlier calls' (a skewed clock).
Schedule ==
  << Call(Order("C1", COLD, 4), 0),       Call(Order("C2", COLD, 5), 0),
     Call(Order("C3", COLD, 5), 0),       Call(Order("C4", COLD, 5), 0),
     Call(Order("C5", COLD, 5), 0),       Call(Order("C6", COLD, 5), 0),
     Call(Order("C7", COLD, 5), 0),
     Call(Order("R1", ROOM, 6), 0),       Call(Order("R2", ROOM, 5), 0),
     Call(Order("R3", ROOM, 1), 0),       Call(Order("R4", ROOM, 2), 0),
     Call(Order("R5", ROOM, 6), 0),
     Call(Order("R6", ROOM, 5), 1000000), Call(Order("R7", ROOM, 5), 1000000),
     Call(Order("R8", ROOM, 5), 1000000), Call(Order("R9", ROOM, 5), 1000000),
     Call(Order("R10", ROOM, 5), 1000000), Call(Order("R11", ROOM, 5), 1000000),
     Call(Order("C8", COLD, 5), 2000000),
     Call(Order("R12", ROOM, 1), 2000000),
     Call(Order("H1", HOT, 3), 0) >>

\* The same run with one more room order at its end, for the draining run.
DrainSchedule == Schedule \o << Call(Order("R13", ROOM, 5), 2000000) >>

\* The run of two placement threads: the first makes the calls of Schedule up
\* to C8's, the second one call, of a room order or of a cold order.
FirstPlacerCalls == SubSeq(Schedule, 1, 19)

SecondPlacerCalls ==
  { << Call(Order("R12", ROOM, 1), 2000000) >>,
    << Call(Order("C9", COLD, 5), 2000000) >> }

Ids == {DrainSchedule[k].order.id : k \in 1..Len(DrainSchedule)} \cup {"C9"}

\* The draining run's pickup_order callers, in the order they take their turns:
\* one for every order that can be on the shelf when R13 is placed.
DrainOrder ==
  << "C7", "R1", "R2", "C1", "R4", "R5", "R6", "R7", "R8", "R9", "R10", "R11", "R12" >>

\* The threads: the place_order callers and the pickup_order callers.
Threads == Placers \cup Ids

\* The orders whose pickup_order caller may run in a behaviour.
PickTargets == {"C1", "R12", "H1"}

\* Kitchen::new(), no call begun.
InitKitchen ==
  /\ cooler = <<>>
  /\ heater = <<>>
  /\ shelf = <<>>
  /\ shelf_queue = <<>>
  /\ actions = <<>>
  /\ last_timestamp = 0
  /\ poisoned = {}
  /\ holder = [m \in Mutexes |-> NoThread]
  /\ pc = [p \in Placers |-> "idle"]
  /\ stored = [p \in Placers |-> NoOrder]
  /\ timestamp = [p \in Placers |-> 0]
  /\ moved = [p \in Placers |-> NoOrder]
  /\ entry = [p \in Placers |-> NoEntry]
  /\ pending = [th \in Threads |-> NoAction]
  /\ stdout_ok = TRUE
  /\ snapshots = <<>>

\* One placement thread with the run's orders; up to MaxPickups pickup threads.
Init ==
  /\ InitKitchen
  /\ todo = [p \in Placers |-> IF p = "p1" THEN Schedule ELSE <<>>]
  /\ \E S \in SUBSET PickTargets :
       /\ Cardinality(S) <= MaxPickups
       /\ ppc = [i \in Ids |-> IF i \in S THEN "ready" ELSE "off"]
       /\ \E times \in [S -> PickupTimes] :
            ptime = [i \in Ids |-> IF i \in S THEN times[i] ELSE 0]

\* The draining run: the longer schedule, and a pickup thread for every order
\* of DrainOrder, each passing the later pickup time.
InitDrain ==
  /\ InitKitchen
  /\ todo = [p \in Placers |-> IF p = "p1" THEN DrainSchedule ELSE <<>>]
  /\ ppc = [i \in Ids |-> IF i \in Range(DrainOrder) THEN "ready" ELSE "off"]
  /\ ptime = [i \in Ids |-> IF i \in Range(DrainOrder) THEN 3000000 ELSE 0]

PlacerNext(p) ==
  \/ PlaceOrder(p)
  \/ TryPlaceInStorage(p)
  \/ TryPlaceOnShelf(p)
  \/ TryPlaceOnShelfRecord(p)
  \/ TryMoveCheck(p)
  \/ DiscardFromShelf(p)
  \/ TryMovePop(p)
  \/ TryMoveInsert(p)
  \/ TryMoveRecord(p)
  \/ ForcePlaceInStorage(p)
  \/ ForcePlaceOnShelf(p)
  \/ ForcePlaceOnShelfRecord(p)
  \/ PushAction(p)
  \/ PrintAction(p)

PickupNext(i) ==
  \/ PickupCooler(i)
  \/ PickupHeater(i)
  \/ PickupShelf(i)
  \/ PickupPush(i)
  \/ PickupPrint(i)

Next ==
  \/ \E p \in Placers : PlacerNext(p)
  \/ \E i \in Ids : PickupNext(i)

Spec == Init /\ [][Next]_vars

\* The same run under a scheduler that lets every thread run: a thread that
\* can take a step is not left waiting for ever.
Fairness ==
  /\ \A p \in Placers : WF_vars(PlacerNext(p))
  /\ \A i \in Ids : WF_vars(PickupNext(i))

SpecFair == Spec /\ Fairness

\* The calls made one at a time: a step of a call is taken only while no
\* other call is in progress.
SeqPlacer(p) ==
  /\ \A i \in Ids : ppc[i] \in {"off", "ready", "done"}
  /\ \A q \in Placers \ {p} : pc[q] = "idle"

SeqPickup(i) ==
  /\ \A p \in Placers : pc[p] = "idle"
  /\ \A j \in Ids \ {i} : ppc[j] \in {"off", "ready", "done"}

NextSeq ==
  \/ \E p \in Placers : SeqPlacer(p) /\ PlaceOrder(p)
  \/ \E p \in Placers : SeqPlacer(p) /\ TryPlaceInStorage(p)
  \/ \E p \in Placers : SeqPlacer(p) /\ TryPlaceOnShelf(p)
  \/ \E p \in Placers : SeqPlacer(p) /\ TryPlaceOnShelfRecord(p)
  \/ \E p \in Placers : SeqPlacer(p) /\ TryMoveCheck(p)
  \/ \E p \in Placers : SeqPlacer(p) /\ DiscardFromShelf(p)
  \/ \E p \in Placers : SeqPlacer(p) /\ TryMovePop(p)
  \/ \E p \in Placers : SeqPlacer(p) /\ TryMoveInsert(p)
  \/ \E p \in Placers : SeqPlacer(p) /\ TryMoveRecord(p)
  \/ \E p \in Placers : SeqPlacer(p) /\ ForcePlaceInStorage(p)
  \/ \E p \in Placers : SeqPlacer(p) /\ ForcePlaceOnShelf(p)
  \/ \E p \in Placers : SeqPlacer(p) /\ ForcePlaceOnShelfRecord(p)
  \/ \E p \in Placers : SeqPlacer(p) /\ PushAction(p)
  \/ \E p \in Placers : SeqPlacer(p) /\ PrintAction(p)
  \/ \E i \in Ids : SeqPickup(i) /\ PickupCooler(i)
  \/ \E i \in Ids : SeqPickup(i) /\ PickupHeater(i)
  \/ \E i \in Ids : SeqPickup(i) /\ PickupShelf(i)
  \/ \E i \in Ids : SeqPickup(i) /\ PickupPush(i)
  \/ \E i \in Ids : SeqPickup(i) /\ PickupPrint(i)

SpecSeq == Init /\ [][NextSeq]_vars

\* The draining run's schedule: the pickup threads wake once the last
\* place_order call has begun, and run one after the other in DrainOrder.
DrainTurn(k) ==
  /\ \A p \in Placers : todo[p] = <<>>
  /\ \A j \in 1..(k - 1) : ppc[DrainOrder[j]] = "done"

NextDrain ==
  \/ \E p \in Placers : PlacerNext(p)
  \/ \E k \in 1..Len(DrainOrder) : DrainTurn(k) /\ PickupCooler(DrainOrder[k])
  \/ \E k \in 1..Len(DrainOrder) : DrainTurn(k) /\ PickupHeater(DrainOrder[k])
  \/ \E k \in 1..Len(DrainOrder) : DrainTurn(k) /\ PickupShelf(DrainOrder[k])
  \/ \E k \in 1..Len(DrainOrder) : DrainTurn(k) /\ PickupPush(DrainOrder[k])
  \/ \E k \in 1..Len(DrainOrder) : DrainTurn(k) /\ PickupPrint(DrainOrder[k])

SpecDrain == InitDrain /\ [][NextDrain]_vars

\* The draining run under a scheduler that never stops while a thread can run.
SpecDrainFair == SpecDrain /\ WF_vars(NextDrain)

\* Two threads calling place_order, no pickup thread.
InitTwo ==
  /\ InitKitchen
  /\ \E calls \in SecondPlacerCalls :
       todo = [p \in Placers |-> IF p = "p1" THEN FirstPlacerCalls ELSE calls]
  /\ ppc = [i \in Ids |-> "off"]
  /\ ptime = [i \in Ids |-> 0]

\* The second thread is started late: it runs once the first has begun its
\* last call.
TwoTurn(p) == p = "p1" \/ todo["p1"] = <<>>

NextTwo ==
  \/ \E p \in Placers : TwoTurn(p) /\ PlaceOrder(p)
  \/ \E p \in Placers : TwoTurn(p) /\ TryPlaceInStorage(p)
  \/ \E p \in Placers : TwoTurn(p) /\ TryPlaceOnShelf(p)
  \/ \E p \in Placers : TwoTurn(p) /\ TryPlaceOnShelfRecord(p)
  \/ \E p \in Placers : TwoTurn(p) /\ TryMoveCheck(p)
  \/ \E p \in Placers : TwoTurn(p) /\ DiscardFromShelf(p)
  \/ \E p \in Placers : TwoTurn(p) /\ TryMovePop(p)
  \/ \E p \in Placers : TwoTurn(p) /\ TryMoveInsert(p)
  \/ \E p \in Placers : TwoTurn(p) /\ TryMoveRecord(p)
  \/ \E p \in Placers : TwoTurn(p) /\ ForcePlaceInStorage(p)
  \/ \E p \in Placers : TwoTurn(p) /\ ForcePlaceOnShelf(p)
  \/ \E p \in Placers : TwoTurn(p) /\ ForcePlaceOnShelfRecord(p)
  \/ \E p \in Placers : TwoTurn(p) /\ PushAction(p)
  \/ \E p \in Placers : TwoTurn(p) /\ PrintAction(p)

SpecTwo == InitTwo /\ [][NextTwo]_vars

\* The observed run: the placement thread, the pickup thread of C1, and a
\* thread that calls get_actions at any moment.
InitObs ==
  /\ InitKitchen
  /\ todo = [p \in Placers |-> IF p = "p1" THEN Schedule ELSE <<>>]
  /\ ppc = [i \in Ids |-> IF i = "C1" THEN "ready" ELSE "off"]
  /\ ptime = [i \in Ids |-> IF i = "C1" THEN 1500000 ELSE 0]

NextObs ==
  \/ \E p \in Placers : PlacerNext(p)
  \/ \E i \in Ids : PickupNext(i)
  \/ GetActions

SpecObs == InitObs /\ [][NextObs]_vars

\* The run whose stdout may fail: the placement thread, the pickup threads of
\* C1 and R1, and a stdout that stops taking writes at any moment.
InitStdout ==
  /\ InitKitchen
  /\ todo = [p \in Placers |-> IF p = "p1" THEN Schedule ELSE <<>>]
  /\ ppc = [i \in Ids |-> IF i \in {"C1", "R1"} THEN "ready" ELSE "off"]
  /\ ptime = [i \in Ids |-> IF i \in {"C1", "R1"} THEN 3000000 ELSE 0]

NextStdout ==
  \/ \E p \in Placers : PlacerNext(p)
  \/ \E i \in Ids : PickupNext(i)
  \/ StdoutFails

SpecStdout == InitStdout /\ [][NextStdout]_vars

-----------------------------------------------------------------------------
(* Properties. *)

ShelfIds == DOMAIN shelf

IdsIn(storage) == {storage[k].id : k \in 1..Len(storage)}

ActionsOf(log, id) == SelectSeq(log, LAMBDA a : a.id = id)

IsTerminal(a) == a.action = PICKUP \/ a.action = DISCARD

\* C1: with one place_order caller and any pickup_order callers, the cooler
\* never holds more than 6 orders, the heater never more than 6 and the shelf
\* never more than 12.
C1_CapacitiesNeverExceeded ==
  /\ Len(cooler) <= 6
  /\ Len(heater) <= 6
  /\ Cardinality(ShelfIds) <= 12

\* C1's case: the move-out cascade has run under pressure (an eviction and a
\* move are in the log) and left the cooler and the shelf both full.
C1_Witness ==
  /\ Len(cooler) = 6
  /\ Cardinality(ShelfIds) = 12
  /\ \E k \in 1..Len(actions) : actions[k].action = MOVE
  /\ \E i \in Ids : ppc[i] = "done"

\* C2: no two issued timestamps are equal, be the action pushed or still
\* waiting for its push, none is greater than the last issued one, and the
\* sequence get_actions returns is strictly increasing in timestamp.
C2_TimestampsStrictlyIncreasing ==
  /\ Cardinality({actions[k].timestamp : k \in 1..Len(actions)}) = Len(actions)
  /\ \A j \in 1..Len(actions) : actions[j].timestamp <= last_timestamp
  /\ \A p \in Threads :
       pending[p] # NoAction =>
         /\ pending[p].timestamp <= last_timestamp
         /\ \A j \in 1..Len(actions) : actions[j].timestamp # pending[p].timestamp
         /\ \A q \in Threads \ {p} : pending[q].timestamp # pending[p].timestamp
  /\ LET log == get_actions
     IN  /\ Len(log) = Len(actions)
         /\ \A j \in 1..(Len(log) - 1) : log[j].timestamp < log[j + 1].timestamp

\* C2's case: a place_order caller recorded right after a pickup_order caller
\* whose time was later than its own, and was given the next timestamp.
C2_Witness ==
  \E k \in 1..(Len(actions) - 1) :
    /\ IsTerminal(actions[k])
    /\ actions[k].timestamp >= 1500000
    /\ actions[k + 1].action = PLACE
    /\ actions[k + 1].id = "H1"
    /\ actions[k + 1].timestamp = actions[k].timestamp + 1

\* No place_order or pickup_order call is in progress.
Quiescent ==
  /\ \A p \in Placers : pc[p] = "idle"
  /\ \A i \in Ids : ppc[i] \in {"off", "ready", "done"}

\* One id's actions in timestamp order: a place, then at most one move (to
\* the shelf, of an order placed in the cooler or heater), then at most one
\* pickup or discard.
LifecycleOK(seq) ==
  \/ seq = <<>>
  \/ /\ seq[1].action = PLACE
     /\ Len(seq) <= 3
     /\ \A k \in 2..Len(seq) : seq[k].action # PLACE
     /\ Len(seq) = 3 => seq[2].action = MOVE /\ IsTerminal(seq[3])
     /\ \A k \in 2..Len(seq) :
          seq[k].action = MOVE =>
            seq[k].target = SHELF /\ seq[1].target \in {COOLER, HEATER}

\* C3: in the log get_actions returns, every id's actions are a place, then
\* zero or one move, then zero or one pickup/discard, in timestamp order, and
\* every move targets the shelf and moves an order placed in the cooler or
\* heater (read when no call is in progress).
C3_PlaceMoveTerminalOrder ==
  Quiescent => \A i \in Ids : LifecycleOK(ActionsOf(get_actions, i))

Count(storage, id) == Cardinality({k \in 1..Len(storage) : storage[k].id = id})

Occurrences(id) ==
  Count(cooler, id) + Count(heater, id) + (IF id \in ShelfIds THEN 1 ELSE 0)

\* C4: every order id is in at most one of cooler, heater and shelf, and at
\* most once in it.
C4_AtMostOneStorage == \A i \in Ids : Occurrences(i) <= 1

\* C4's case: an order placed in the cooler has been moved and is now on the
\* shelf, while a pickup_order caller for it is between its blocks.
C4_Witness ==
  \E i \in ShelfIds :
    /\ shelf[i].temp = COLD
    /\ \E k \in 1..Len(actions) : actions[k].id = i /\ actions[k].action = MOVE
    /\ ppc[i] \in {"heater", "shelf"}

Terminals(id) == {k \in 1..Len(actions) : actions[k].id = id /\ IsTerminal(actions[k])}

\* C5: no id has more than one pickup/discard action in the log, and an id
\* that has one is in no storage.
C5_RemovedAtMostOnce ==
  LET terminals == {k \in 1..Len(actions) : IsTerminal(actions[k])}
  IN  /\ \A j \in terminals : \A k \in terminals :
           actions[j].id = actions[k].id => j = k
      /\ \A k \in terminals : Occurrences(actions[k].id) = 0

\* C5's case: an eviction discarded an order whose pickup_order caller is
\* under way and has yet to look at the shelf, and another order was picked up.
C5_Witness ==
  \E i \in Ids :
    /\ ppc[i] = "shelf"
    /\ \E k \in Terminals(i) : actions[k].action = DISCARD /\ actions[k].target = SHELF
    /\ \E j \in Ids : j # i /\ ppc[j] = "done" /\ Terminals(j) # {}

PlaceActions(log, id) == {k \in 1..Len(log) : log[k].id = id /\ log[k].action = PLACE}

\* C6: no place_order call reaches an abort, and when a call returns the log
\* holds exactly one place action for the order it placed.
C6_PlacementNeverFails ==
  [][\A p \in Placers :
       /\ pc'[p] # "panic"
       /\ (pc[p] # "idle" /\ pc'[p] = "idle") =>
            Cardinality(PlaceActions(actions', stored[p].id)) = 1]_vars

\* C7: a step in which pickup_order(i, t) looks for i (in the cooler, in the
\* heater or on the shelf) while i is in none of the three storages appends
\* nothing to the log, creates no action and leaves cooler, heater, shelf, heap
\* and last issued timestamp as they were.
C7_AbsentPickupIsNoOp ==
  [][\A i \in Ids :
       (ppc'[i] # ppc[i] /\ ppc[i] \in {"ready", "heater", "shelf"}
          /\ Occurrences(i) = 0) =>
         UNCHANGED <<cooler, heater, shelf, shelf_queue, actions, last_timestamp,
                     pending>>]_vars

\* C7's case: a pickup_order call has returned for an order that was never
\* in a storage while it ran (it was placed later, or not yet), with nothing
\* logged for it, while the log holds other callers' actions.
C7_Witness ==
  \E i \in Ids :
    /\ ppc[i] = "done"
    /\ Terminals(i) = {}
    /\ PlaceActions(actions, i) = {}
    /\ actions # <<>>

\* The storage a pickup_order caller looks at in its next step.
ProbedStorage(i) ==
  CASE ppc[i] = "ready" -> COOLER
    [] ppc[i] = "heater" -> HEATER
    [] ppc[i] = "shelf" -> SHELF
    [] OTHER -> "none"

PresentIn(c, h, sh, id, st) ==
  CASE st = COOLER -> id \in IdsIn(c)
    [] st = HEATER -> id \in IdsIn(h)
    [] st = SHELF -> id \in DOMAIN sh
    [] OTHER -> FALSE

HeldIn(id, st) ==
  CASE st = COOLER -> cooler[CHOOSE k \in 1..Len(cooler) : cooler[k].id = id]
    [] st = HEATER -> heater[CHOOSE k \in 1..Len(heater) : heater[k].id = id]
    [] st = SHELF -> shelf[id]

AmbientOf(st) == IF st = COOLER THEN COLD ELSE IF st = HEATER THEN HOT ELSE ROOM

\* freshness - rate * (whole seconds from placed_at to t), rate 1 when the
\* storage's ambient is the order's temp and 2 otherwise.
FreshnessLeft(o, st, t) ==
  LET rate == IF AmbientOf(st) = o.temp THEN 1 ELSE 2
      secs == IF t >= o.placed_at THEN (t - o.placed_at) \div 1000000 ELSE 0
  IN  o.freshness - rate * secs

\* The states of a pickup_order caller whose action waits for its push.
PickupPushing == {"cooler_push", "heater_push", "shelf_push"}

\* The states of a pickup_order caller whose action is pushed and not yet printed.
PickupPrinting == {"cooler_print", "heater_print", "shelf_print"}

\* C8: a pickup_order(i, t) step that finds i in the storage it looks at
\* removes it from that storage and creates exactly one action for i whose
\* target is that storage: discard if freshness - rate * (whole seconds from
\* placed_at to t) <= 0, else pickup, with the rate of that storage; the
\* call's next step appends that action and nothing else to the log, and its
\* last step, which prints the action, returns with the log and the storages
\* as they are.
C8_PickupOrDiscardByFreshness ==
  [][\A i \in Ids :
       /\ \A st \in {COOLER, HEATER, SHELF} :
            (ppc'[i] # ppc[i] /\ ProbedStorage(i) = st
               /\ PresentIn(cooler, heater, shelf, i, st)) =>
              /\ ~PresentIn(cooler', heater', shelf', i, st)
              /\ ppc'[i] \in PickupPushing
              /\ actions' = actions
              /\ LET a == pending'[i]
                     left == FreshnessLeft(HeldIn(i, st), st, ptime[i])
                 IN  /\ a.id = i
                     /\ a.target = st
                     /\ a.action = IF left <= 0 THEN DISCARD ELSE PICKUP
                     /\ a.action = PICKUP => left > 0
       /\ (ppc[i] \in PickupPushing /\ ppc'[i] # ppc[i]) =>
            /\ ppc'[i] \in PickupPrinting
            /\ actions' = Append(actions, pending[i])
            /\ UNCHANGED <<cooler, heater, shelf>>
       /\ (ppc[i] \in PickupPrinting /\ ppc'[i] # ppc[i]) =>
            /\ ppc'[i] = "done"
            /\ UNCHANGED <<cooler, heater, shelf, actions>>]_vars

\* C8's case: the log holds a discard from the heater (an expired pickup at
\* the ideal rate) and a pickup from the shelf of a cold order (the rate of 2,
\* still fresh).
C8_Witness ==
  /\ \E k \in 1..Len(actions) :
       actions[k].action = DISCARD /\ actions[k].target = HEATER
  /\ \E k \in 1..Len(actions) :
       /\ actions[k].id \in {"C1", "C7", "C8"}
       /\ actions[k].action = PICKUP
       /\ actions[k].target = SHELF

\* The storage whose ambient is the order's temp.
IdealOf(temp) == IF temp = HOT THEN HEATER ELSE IF temp = COLD THEN COOLER ELSE SHELF

\* How many orders storage st held when p's call began.
SizeAtEntry(p, st) ==
  CASE st = COOLER -> entry[p].cooler
    [] st = HEATER -> entry[p].heater
    [] st = SHELF -> entry[p].shelf

LimitOf(st) == IF st = SHELF THEN 12 ELSE 6

CountIn(c, h, sh, id, st) ==
  CASE st = COOLER -> Count(c, id)
    [] st = HEATER -> Count(h, id)
    [] st = SHELF -> IF id \in DOMAIN sh THEN 1 ELSE 0

\* C9: with the calls made one at a time, a place_order call that began with a
\* free slot in the order's ideal storage (hot: heater, cold: cooler, room:
\* shelf), or with that storage full and a free slot on the shelf, returns
\* having appended exactly one action, place to the ideal storage in the first
\* case and to the shelf in the second, with the order in that storage only.
C9_PlacesInIdealOrShelf ==
  [][\A p \in Placers :
       LET o == stored[p]
           ideal == IdealOf(o.temp)
           idealFree == SizeAtEntry(p, ideal) < LimitOf(ideal)
           shelfFree == SizeAtEntry(p, SHELF) < LimitOf(SHELF)
           chosen == IF idealFree THEN ideal ELSE SHELF
       IN  (pc[p] # "idle" /\ pc'[p] = "idle" /\ (idealFree \/ shelfFree)) =>
             /\ Len(actions') = entry[p].actions + 1
             /\ SubSeq(actions', 1, Len(actions') - 1) = SubSeq(actions, 1, entry[p].actions)
             /\ LET a == actions'[Len(actions')]
                IN  a.id = o.id /\ a.action = PLACE /\ a.target = chosen
             /\ \A st \in {COOLER, HEATER, SHELF} :
                  CountIn(cooler', heater', shelf', o.id, st) = IF st = chosen THEN 1 ELSE 0]_vars

\* C9's case: no call is in progress and the log holds a cold order placed in
\* the cooler, a cold order placed on the shelf (the cooler was full), a room
\* order placed on the shelf and a hot order placed in the heater.
C9_Witness ==
  /\ Quiescent
  /\ \E k \in PlaceActions(actions, "C1") : actions[k].target = COOLER
  /\ \E k \in PlaceActions(actions, "C7") : actions[k].target = SHELF
  /\ \E k \in PlaceActions(actions, "R1") : actions[k].target = SHELF
  /\ \E k \in PlaceActions(actions, "H1") : actions[k].target = HEATER

\* The place action of id in the log (its index), for an id placed once.
PlaceIndex(log, id) == CHOOSE k \in PlaceActions(log, id) : TRUE

\* C10: with the calls made one at a time, a place_order call for a hot/cold
\* order that began with its ideal storage and the shelf both full returns
\* having appended exactly three actions with increasing timestamps: discard
\* of an order that was on the shelf (target shelf), move to the shelf of the
\* ideal storage's occupant that entered it earliest, place of the new order
\* into the ideal storage; and both storages are exactly full again.
C10_MoveOutCascade ==
  [][\A p \in Placers :
       LET o == stored[p]
           ideal == IdealOf(o.temp)
           n == entry[p].actions
           held == IF ideal = COOLER THEN cooler' ELSE heater'
       IN  (/\ pc[p] # "idle" /\ pc'[p] = "idle"
            /\ ideal # SHELF
            /\ SizeAtEntry(p, ideal) = LimitOf(ideal)
            /\ SizeAtEntry(p, SHELF) = LimitOf(SHELF)) =>
             /\ Len(actions') = n + 3
             /\ SubSeq(actions', 1, n) = SubSeq(actions, 1, n)
             /\ LET d == actions'[n + 1]
                    m == actions'[n + 2]
                    a == actions'[n + 3]
                IN  /\ d.action = DISCARD /\ d.target = SHELF
                    /\ d.id \notin DOMAIN shelf'
                    /\ \E k \in 1..n : /\ actions'[k].id = d.id
                                       /\ actions'[k].action \in {PLACE, MOVE}
                                       /\ actions'[k].target = SHELF
                    /\ m.action = MOVE /\ m.target = SHELF
                    /\ m.id \in DOMAIN shelf'
                    /\ actions'[PlaceIndex(actions', m.id)].target = ideal
                    /\ \A x \in IdsIn(held) \ {o.id} :
                         PlaceIndex(actions', m.id) < PlaceIndex(actions', x)
                    /\ a.action = PLACE /\ a.target = ideal /\ a.id = o.id
                    /\ d.timestamp < m.timestamp /\ m.timestamp < a.timestamp
             /\ Len(held) = LimitOf(ideal)
             /\ Cardinality(DOMAIN shelf') = LimitOf(SHELF)]_vars

\* C10's case: no call is in progress and the log holds, one after the other,
\* the discard of R3 from the shelf, the move of C1 to the shelf and the place
\* of C8 in the cooler.
C10_Witness ==
  /\ Quiescent
  /\ \E k \in 1..(Len(actions) - 2) :
       /\ actions[k].id = "R3" /\ actions[k].action = DISCARD /\ actions[k].target = SHELF
       /\ actions[k + 1].id = "C1" /\ actions[k + 1].action = MOVE
       /\ actions[k + 2].id = "C8" /\ actions[k + 2].action = PLACE
       /\ actions[k + 2].target = COOLER

\* placed_at + floor(freshness * 1000000 / rate) for an order on the shelf:
\* rate 1 for a room order, 2 for a hot or cold one.
ShelfExpiry(o) ==
  o.placed_at + (o.freshness * 1000000) \div (IF o.temp = ROOM THEN 1 ELSE 2)

\* C11: every step of place_order that evicts from the shelf creates exactly
\* one action, a discard with target shelf, and removes from the shelf exactly
\* the order it names; no order then on the shelf, moved there or placed
\* there, had an earlier projected expiration; the caller's next step appends
\* that action and nothing else to the log and leaves the shelf as it is, and
\* so does the step that prints the action, which appends nothing.
C11_EvictsEarliestExpiry ==
  [][\A p \in Placers :
       /\ (pc[p] \in {"dfs_289", "dfs_176", "dfs_180"} /\ pc'[p] \notin {pc[p], "panic"}) =>
            /\ actions' = actions
            /\ LET d == pending'[p]
               IN  /\ d.action = DISCARD /\ d.target = SHELF
                   /\ d.id \in DOMAIN shelf
                   /\ DOMAIN shelf' = DOMAIN shelf \ {d.id}
                   /\ \A x \in DOMAIN shelf' : shelf'[x] = shelf[x]
                   /\ \A x \in DOMAIN shelf :
                        ShelfExpiry(shelf[d.id]) <= ShelfExpiry(shelf[x])
       /\ (pc[p] \in {"dfs_289_push", "dfs_176_push", "dfs_180_push"}
             /\ pc'[p] # pc[p]) =>
            /\ actions' = Append(actions, pending[p])
            /\ shelf' = shelf
       /\ (pc[p] \in {"dfs_289_print", "dfs_176_print", "dfs_180_print"}
             /\ pc'[p] # pc[p]) =>
            /\ actions' = actions
            /\ shelf' = shelf]_vars

\* C11's case: an order that was moved to the shelf from the cooler was
\* evicted there (its pickup_order caller never ran), after an earlier
\* eviction of an order placed on the shelf.
C11_Witness ==
  \E m \in 1..Len(actions) : \E d \in 1..Len(actions) : \E e \in 1..Len(actions) :
    /\ actions[m].action = MOVE
    /\ actions[d].action = DISCARD /\ actions[d].target = SHELF
    /\ actions[d].id = actions[m].id
    /\ ppc[actions[m].id] \in {"off", "ready"}
    /\ actions[e].action = DISCARD /\ actions[e].target = SHELF
    /\ actions[e].timestamp < actions[d].timestamp

\* C12: a get_actions call returns every action of the log, each once, in
\* ascending timestamp order; it changes nothing of the kitchen or of the
\* callers; and it returns what the call before it returned when no
\* place_order or pickup_order step came between the two.
C12_GetActionsSortedAndPure ==
  [][(snapshots' # snapshots /\ snapshots' # <<>>) =>
       LET r == snapshots'[Len(snapshots')]
       IN  /\ UNCHANGED <<kitchenVars, callerVars>>
           /\ Len(r) = Len(actions)
           /\ \A k \in 1..Len(actions) : \E j \in 1..Len(r) : r[j] = actions[k]
           /\ \A j \in 1..Len(r) : \A k \in (j + 1)..Len(r) :
                r[j].timestamp <= r[k].timestamp
           /\ snapshots # <<>> => r = snapshots[Len(snapshots)]]_vars

\* C12's case: get_actions was called twice in a row on a log whose push
\* order is not its timestamp order.
C12_Witness ==
  /\ Len(snapshots) = 2
  /\ \E j \in 1..Len(actions) : \E k \in (j + 1)..Len(actions) :
       actions[j].timestamp > actions[k].timestamp

\* place_order(i) has returned: its place action is in the log and no caller
\* is still placing i.
PlaceReturned(i) ==
  /\ PlaceActions(actions, i) # {}
  /\ \A p \in Placers : stored[p].id # i

\* C13: a pickup_order(i) call that has yet to begin when place_order(i) has
\* returned and the log has no pickup/discard of i leads to a pickup or
\* discard of i in the log, whatever place_order does to i meanwhile.
C13_PickupFindsPlacedOrder ==
  \A i \in PickTargets :
    (ppc[i] = "ready" /\ PlaceReturned(i) /\ Terminals(i) = {}) ~> (Terminals(i) # {})

\* The actions whose timestamp has been issued: those in the log and those
\* waiting for their push.
Issued == (Range(actions) \cup {pending[p] : p \in Threads}) \ {NoAction}

\* C14: a step that takes an order off the shelf (a pickup_order caller's
\* pickup or discard, or an eviction) is timestamped after the place or move
\* that put the order on the shelf: that action's timestamp was issued
\* before, and is the smaller one.
C14_ShelfEntryTimestampedFirst ==
  [][\A i \in DOMAIN shelf :
       i \notin DOMAIN shelf' =>
         \E a \in Issued :
           /\ a.id = i
           /\ a.action \in {PLACE, MOVE}
           /\ a.target = SHELF
           /\ a.timestamp < last_timestamp']_vars

\* The move variant of the race: C1 was taken off the shelf by its
\* pickup_order caller while the caller that moved it there has yet to issue
\* the move's timestamp.
C14_MoveRace ==
  /\ pc["p1"] = "tmts_record"
  /\ moved["p1"].id = "C1"
  /\ \E k \in Terminals("C1") : actions[k].target = SHELF

\* C15: under fair scheduling every place_order call that has begun returns,
\* and every pickup_order call that has begun returns.
C15_EveryCallReturns ==
  /\ \A p \in Placers : (pc[p] # "idle") ~> (pc[p] = "idle")
  /\ \A i \in Range(DrainOrder) :
       (ppc[i] \in {"heater", "shelf"} \cup PickupPushing \cup PickupPrinting)
         ~> (ppc[i] = "done")

\* C16: with two callers of place_order the cooler and the heater never hold
\* more than 6 orders, the shelf never more than 12, and no place_order call
\* reaches an abort.
C16_CapacitiesWithTwoPlacers ==
  /\ Len(cooler) <= 6
  /\ Len(heater) <= 6
  /\ Cardinality(DOMAIN shelf) <= 12
  /\ \A p \in Placers : pc[p] # "panic"

\* The two ways the claim fails: thirteen orders on the shelf, and the abort
\* of force_place_in_storage with the cooler full.
C16_ShelfOverCapacity == Cardinality(DOMAIN shelf) = 13

C16_ForcedPlaceAbort == pc["p1"] = "panic" /\ COOLER \in poisoned

\* Every place_order call a behaviour can make.
AllCalls == Range(DrainSchedule) \cup UNION {Range(calls) : calls \in SecondPlacerCalls}

\* The call that introduced order id.
CallOf(id) == CHOOSE c \in AllCalls : c.order.id = id

\* C17: every entry of the shelf's heap has expires_at = t + floor(freshness *
\* 1000000 / rate), t and freshness being those of the place_order call that
\* introduced the order, rate 1 for a room order and 2 for a hot or cold one,
\* whether the order was placed on the shelf or moved there; and every order
\* on the shelf has an entry with that value.
C17_HeapEntryIsShelfExpiry ==
  /\ \A k \in 1..Len(shelf_queue) :
       LET c == CallOf(shelf_queue[k].order_id)
       IN  shelf_queue[k].expires_at =
             c.t + (c.order.freshness * 1000000) \div (IF c.order.temp = ROOM THEN 1 ELSE 2)
  /\ \A i \in DOMAIN shelf :
       \E k \in 1..Len(shelf_queue) :
         /\ shelf_queue[k].order_id = i
         /\ shelf_queue[k].expires_at = ShelfExpiry(shelf[i])

\* C17's case: the shelf holds a cold order moved there from the cooler, whose
\* entry carries the shelf's rate (4 s of freshness gone after 2 s), and a
\* room order placed there at a later time.
C17_Witness ==
  /\ "C1" \in DOMAIN shelf /\ "R6" \in DOMAIN shelf
  /\ \E k \in 1..Len(actions) : actions[k].id = "C1" /\ actions[k].action = MOVE
  /\ \E k \in 1..Len(shelf_queue) :
       shelf_queue[k] = [order_id |-> "C1", expires_at |-> 2000000]
  /\ \E k \in 1..Len(shelf_queue) :
       shelf_queue[k] = [order_id |-> "R6", expires_at |-> 6000000]

\* The time argument of the call that takes the step.
StepTimes ==
  {timestamp[p] : p \in {q \in Placers : pc'[q] # pc[q]}}
    \cup {ptime[i] : i \in {j \in Ids : ppc'[j] # ppc[j]}}

\* C18: a step issues a timestamp exactly when it creates an action; the
\* timestamp is t if t is greater than the last issued timestamp L and L + 1
\* otherwise, t being the time passed to the call; it is the action's
\* timestamp and the new last issued timestamp, all in that one step.
C18_IssuesMaxOfProvidedAndNext ==
  [][(last_timestamp' # last_timestamp \/ Issued' # Issued) =>
       \E t \in StepTimes :
         LET ts == IF t > last_timestamp THEN t ELSE last_timestamp + 1
         IN  /\ last_timestamp' = ts
             /\ ts >= t
             /\ \E a \in Issued' \ Issued :
                  /\ Issued' = Issued \cup {a}
                  /\ a.timestamp = ts]_vars

\* C18's case: the log holds an action timestamped 1 (t = 0 on a new kitchen),
\* one timestamped with its call's own t = 1000000, and the place of H1,
\* whose call passed t = 0 after later times had been issued.
C18_Witness ==
  /\ \E k \in 1..Len(actions) : actions[k].id = "C1" /\ actions[k].timestamp = 1
  /\ \E k \in 1..Len(actions) : actions[k].id = "R6" /\ actions[k].timestamp = 1000000
  /\ \E k \in 1..Len(actions) :
       /\ actions[k].id = "H1" /\ actions[k].action = PLACE
       /\ actions[k].timestamp > 2000000
       /\ actions[k].timestamp = last_timestamp

\* The stored order is the one its place_order call passed, with that call's
\* time as placed_at, and names the storage st as its current one.
StoredAsPlaced(o, st) ==
  LET c == CallOf(o.id)
  IN  /\ o.placed_at = c.t
      /\ o.temp = c.order.temp
      /\ o.freshness = c.order.freshness
      /\ o.current_temp = st

\* C19: every order in the cooler, in the heater, on the shelf or on its way
\* from one to the other in a move has the fields of the order passed to
\* place_order and that call's time t as placed_at, whatever timestamps were
\* logged, and names the storage that holds it as its current one.
C19_PlacedAtIsCallTime ==
  /\ \A k \in 1..Len(cooler) : StoredAsPlaced(cooler[k], COOLER)
  /\ \A k \in 1..Len(heater) : StoredAsPlaced(heater[k], HEATER)
  /\ \A i \in DOMAIN shelf : shelf[i].id = i /\ StoredAsPlaced(shelf[i], SHELF)
  /\ \A p \in Placers :
       moved[p] # NoOrder => StoredAsPlaced(moved[p], ideal_target(moved[p].temp))

\* C19's case: C1, placed at t = 0 with its place action logged at 1, has been
\* moved to the shelf (the move is in the log, at a timestamp above 2000000)
\* and keeps placed_at = 0; H1, placed at t = 0 and logged far later, is in
\* the heater with placed_at = 0.
C19_Witness ==
  /\ "C1" \in DOMAIN shelf
  /\ shelf["C1"].placed_at = 0
  /\ \E k \in 1..Len(actions) :
       actions[k].id = "C1" /\ actions[k].action = PLACE /\ actions[k].timestamp = 1
  /\ \E k \in 1..Len(actions) :
       actions[k].id = "C1" /\ actions[k].action = MOVE /\ actions[k].timestamp > 2000000
  /\ \E k \in 1..Len(heater) : heater[k].id = "H1" /\ heater[k].placed_at = 0

\* The heap entries that name order id.
EntriesOf(id) == {k \in 1..Len(shelf_queue) : shelf_queue[k].order_id = id}

\* C20: the shelf's heap holds exactly one entry for every order on the shelf
\* and no entry for any other order, so the entry discard_from_shelf pops
\* first names an order on the shelf.
C20_HeapMatchesShelf ==
  /\ \A k \in 1..Len(shelf_queue) : shelf_queue[k].order_id \in DOMAIN shelf
  /\ \A i \in DOMAIN shelf : Cardinality(EntriesOf(i)) = 1
  /\ \A k \in PopCandidates(shelf_queue) : shelf_queue[k].order_id \in DOMAIN shelf

\* C20's case: a pickup_order caller took its order off the shelf, an
\* eviction discarded another order whose caller never ran, and the shelf is
\* full again.
C20_Witness ==
  /\ Cardinality(DOMAIN shelf) = 12
  /\ \E i \in Ids :
       /\ ppc[i] = "done"
       /\ \E k \in Terminals(i) : actions[k].target = SHELF
  /\ \E j \in Ids :
       /\ ppc[j] = "off"
       /\ \E k \in Terminals(j) : actions[k].action = DISCARD /\ actions[k].target = SHELF

\* C21: a step of place_order that evicts (it removes an order from the shelf
\* and logs its discard) is taken only with exactly 12 orders on the shelf.
C21_EvictsOnlyFromFullShelf ==
  [][\A p \in Placers :
       (/\ pc[p] \in {"dfs_289", "dfs_176", "dfs_180"}
        /\ DOMAIN shelf' # DOMAIN shelf) =>
         Cardinality(DOMAIN shelf) = 12]_vars

\* The race behind it: place_order saw the shelf full and is about to evict,
\* while a pickup_order caller has since taken an order off the shelf.
C21_SlotFreedBeforeEviction ==
  /\ pc["p1"] \in {"dfs_289", "dfs_180"}
  /\ Cardinality(DOMAIN shelf) = 11
  /\ \E i \in Ids :
       /\ ppc[i] = "done"
       /\ \E k \in Terminals(i) : actions[k].target = SHELF

\* The storage that holds order id (an id held once).
HolderOf(id) ==
  CASE id \in IdsIn(cooler) -> COOLER
    [] id \in IdsIn(heater) -> HEATER
    [] id \in DOMAIN shelf -> SHELF

\* The place and move actions of id in the log.
Entries(id) ==
  {k \in 1..Len(actions) : actions[k].id = id /\ actions[k].action \in {PLACE, MOVE}}

\* The latest of them by timestamp.
LatestEntry(id) ==
  CHOOSE k \in Entries(id) :
    \A j \in Entries(id) : actions[j].timestamp <= actions[k].timestamp

\* C22: when no place_order or pickup_order call is in progress, an order id
\* is in a storage exactly when the log has a place action for it and no
\* pickup or discard of it, and the storage that holds it is the target of
\* the latest place or move action of that id.
C22_StoragesAgreeWithLog ==
  Quiescent =>
    \A i \in Ids :
      /\ Occurrences(i) >= 1 <=> (PlaceActions(actions, i) # {} /\ Terminals(i) = {})
      /\ Occurrences(i) >= 1 => actions[LatestEntry(i)].target = HolderOf(i)

\* C22's case: every call has returned; C1 was placed in the cooler and moved
\* to the shelf, where it still is because its pickup_order caller looked for
\* it while it was between the two; another order was taken by its caller;
\* H1 is in the heater.
C22_Witness ==
  /\ Quiescent
  /\ \A p \in Placers : todo[p] = <<>>
  /\ "C1" \in DOMAIN shelf
  /\ ppc["C1"] = "done"
  /\ \E k \in Entries("C1") : actions[k].action = MOVE
  /\ \E i \in Ids : ppc[i] = "done" /\ Terminals(i) # {}
  /\ "H1" \in IdsIn(heater)

=============================================================================
